---- MODULE Spec2Model ----
(***************************************************************************)
(* Login-request lifecycle of server.js: the Express handlers over the     *)
(* PostgreSQL pool (tables login_requests and login_attempts) and the      *)
(* in-memory mockData branch each handler carries.                         *)
(*                                                                         *)
(* A handler runs from one await to the next without interruption, so one  *)
(* action is one database statement together with the JavaScript that      *)
(* follows it up to the next statement (or up to the response).  Handlers  *)
(* of different HTTP requests interleave at their awaits.                  *)
(*                                                                         *)
(* mockData, nextId and generateId are declared inside the catch block of  *)
(* the Pool construction, which new Pool(...) does not enter; the model    *)
(* gives the mock branch the meaning its text has, and UseMock decides     *)
(* whether a handler ever takes it.                                        *)
(***************************************************************************)
EXTENDS Integers, Sequences, FiniteSets, Bags, TLC

VARIABLES
    env,             \* process.env: DATABASE_URL and NODE_ENV
    login_requests,  \* table login_requests, rows in insertion order
    login_attempts,  \* table login_attempts, rows in insertion order
    reqSeq,          \* next value of login_requests.id (SERIAL)
    attSeq,          \* next value of login_attempts.id (SERIAL)
    mockData,        \* mockData.login_requests / mockData.login_attempts
    nextId,          \* counter behind generateId()
    now,             \* the clock read by CURRENT_TIMESTAMP and new Date()
    calls,           \* handlers suspended at an await (a bag of their locals)
    res,             \* the response sent by the last step, NoRes if none
    resMock,         \* the mock branch's response, where both branches run
    obs,             \* history: what the last step found and logged
    lastResolve,     \* history: per request id, the last UPDATE applied to it
    acked            \* history: the resolutions answered with success

vars == <<env, login_requests, login_attempts, reqSeq, attSeq, mockData,
          nextId, now, calls, res, resMock, obs, lastResolve, acked>>

-----------------------------------------------------------------------------
(* Bounds of the model *)
MaxReq == 2        \* rows the model lets login_requests hold
MaxAtt == 2        \* rows the model lets login_attempts hold
MaxClock == 1      \* last clock reading the model follows
MaxCalls == 1      \* handlers suspended at an await at the same time
MaxRace == 2       \* the same, where approves and rejects run against each other

(* One calendar day lasts this many clock readings *)
TicksPerDay == 2

-----------------------------------------------------------------------------
(* JavaScript values of the branch condition *)
Unset == [t |-> "undefined", v |-> "undefined"]
Str(s) == [t |-> "string", v |-> s]
Bool(b) == [t |-> "boolean", v |-> IF b THEN "true" ELSE "false"]

\* ToBoolean: undefined and the empty string are falsy
Truthy(x) ==
    CASE x.t = "undefined" -> FALSE
      [] x.t = "string" -> x.v # ""
      [] x.t = "boolean" -> x.v = "true"

\* the unary ! operator: always yields a boolean
JsNot(x) == Bool(~Truthy(x))

\* the === operator: values of different types are never equal
StrictEquals(a, b) == a.t = b.t /\ a.v = b.v

\* !process.env.DATABASE_URL && !process.env.NODE_ENV === 'production'
\* parses as (!DATABASE_URL) && ((!NODE_ENV) === 'production')
UseMock(e) ==
    Truthy(JsNot(e.DATABASE_URL))
        /\ StrictEquals(JsNot(e.NODE_ENV), Str("production"))

\* The environment the model starts the server in: no DATABASE_URL, no
\* NODE_ENV, the configuration the mock branch is written for
Envs == { [DATABASE_URL |-> Unset, NODE_ENV |-> Unset] }

-----------------------------------------------------------------------------
(* Request bodies of POST /api/login-requests *)
NoIp == "undefined"

Bodies ==
    { [username |-> "alice", password |-> "pw1", ipAddress |-> "10.0.0.1"],
      [username |-> "bob", password |-> "pw2", ipAddress |-> NoIp] }

\* ipAddress || '127.0.0.1'
IpOrDefault(ip) == IF ip = NoIp \/ ip = "" THEN "127.0.0.1" ELSE ip

\* every id either sequence can issue, and one beyond
Ids == 1..(MaxReq + MaxAtt + 1)

\* ids a caller names: those of the stored rows and the next unissued one
Named(rows, next) == {rows[i].id : i \in 1..Len(rows)} \cup {next}

-----------------------------------------------------------------------------
(* Rows.  Each statement is followed here by fault variants of it, against *)
(* which the properties below are tested.                                  *)

\* fault variant of NewRequest: a status outside the three
NewRequestBadStatus(id, body, t) ==
    [id |-> id, username |-> body.username, password |-> body.password,
     ip_address |-> IpOrDefault(body.ipAddress), status |-> "new",
     created_at |-> t, updated_at |-> t]

\* fault variant of NewRequest: updated_at from a later clock reading
NewRequestLateUpdate(id, body, t) ==
    [id |-> id, username |-> body.username, password |-> body.password,
     ip_address |-> IpOrDefault(body.ipAddress), status |-> "pending",
     created_at |-> t, updated_at |-> t + 1]

\* INSERT INTO login_requests (username, password, ip_address): status and
\* both timestamps take the column defaults, CURRENT_TIMESTAMP read once
NewRequest(id, body, t) ==
    [id |-> id, username |-> body.username, password |-> body.password,
     ip_address |-> IpOrDefault(body.ipAddress), status |-> "pending",
     created_at |-> t, updated_at |-> t]

\* fault variant of SetStatus: resolving to the same outcome twice reopens
SetStatusToggle(row, outcome, t) ==
    [row EXCEPT !.status = IF row.status = outcome THEN "pending" ELSE outcome,
                !.updated_at = t]

\* fault variant of SetStatus: updated_at is left as it was
SetStatusKeepTime(row, outcome, t) ==
    [row EXCEPT !.status = outcome]

\* fault variant of SetStatus: created_at is set as well
SetStatusAndCreated(row, outcome, t) ==
    [row EXCEPT !.status = outcome, !.updated_at = t, !.created_at = t]

\* SET status = $1, updated_at = CURRENT_TIMESTAMP
SetStatus(row, outcome, t) ==
    [row EXCEPT !.status = outcome, !.updated_at = t]

\* fault variant of NewAttempt: the status is always 'approved'
NewAttemptApproved(id, request, outcome, t) ==
    [id |-> id, username |-> request.username,
     ip_address |-> request.ip_address, status |-> "approved",
     created_at |-> t]

\* INSERT INTO login_attempts (username, ip_address, status)
NewAttempt(id, request, outcome, t) ==
    [id |-> id, username |-> request.username,
     ip_address |-> request.ip_address, status |-> outcome, created_at |-> t]

-----------------------------------------------------------------------------
(* Queries over a table held as a sequence of rows *)
Indexes(rows) == 1..Len(rows)

\* WHERE id = $1 (and Array.prototype.findIndex): the positions of the id
Matching(rows, id) == {i \in Indexes(rows) : rows[i].id = id}

\* fault variant of Filter: the WHERE clause is left out
FilterNothing(rows, status) == rows

\* WHERE status = $1 (and Array.prototype.filter on the status)
Filter(rows, status) ==
    SelectSeq(rows, LAMBDA r : r.status = status)

\* SELECT COUNT(*) ... WHERE status = $1, and filter(...).length
CountStatus(rows, status) == Len(Filter(rows, status))

\* fault variant of CountAll: only the pending rows are counted
CountAllPending(rows) == Len(SelectSeq(rows, LAMBDA r : r.status = "pending"))

\* SELECT COUNT(*) FROM login_requests
CountAll(rows) == Len(rows)

\* local midnight of the day of t: today.setHours(0, 0, 0, 0)
Midnight(t) == t - (t % TicksPerDay)

\* SELECT COUNT(*) ... WHERE created_at >= $1
CountSince(rows, t) == Len(SelectSeq(rows, LAMBDA r : r.created_at >= t))

\* ORDER BY created_at DESC: every arrangement of the rows in which created_at
\* never increases; rows of equal created_at come in any order
OrderByCreatedDesc(rows) ==
    { [k \in Indexes(rows) |-> rows[p[k]]] :
        p \in { q \in [Indexes(rows) -> Indexes(rows)] :
                  /\ \A a, b \in Indexes(rows) : a # b => q[a] # q[b]
                  /\ \A a, b \in Indexes(rows) :
                        a < b => rows[q[a]].created_at >= rows[q[b]].created_at } }

-----------------------------------------------------------------------------
(* Responses and suspended handlers *)
NoRow == [id |-> 0]
ServerError == [error |-> "Internal server error"]
NotFound == [error |-> "Login request not found"]

\* res.status(code).json(body); id is the :id of the route, 0 without one
Reply(op, id, code, body) == [op |-> op, id |-> id, code |-> code, body |-> body]
NoRes == Reply("none", 0, 0, NoRow)

\* the body of a list response: the array of rows
Rows(rows) == [rows |-> rows]

NoResolve == [outcome |-> "none", at |-> 0]

\* History of one step: found - the id named a row when the statement ran;
\* logged - ids of the login_attempts rows the handler inserted; seen - the
\* attempt log when the statement ran; prior - the last UPDATE applied to the
\* named request before the statement; ended - the step was the last of a
\* handler that had been waiting at an await.
Seen(found, logged, seen, prior) ==
    [found |-> found, logged |-> logged, seen |-> seen, prior |-> prior,
     ended |-> FALSE]
NoObs == Seen(FALSE, <<>>, <<>>, NoResolve)
Ended(o) == [o EXCEPT !.ended = TRUE]

\* the counts a statistics handler has read so far and its local today
\* (since); read is history: the table as SELECT COUNT(*) found it
NoStats == [total |-> 0, approved |-> 0, rejected |-> 0, pending |-> 0,
            today |-> 0, since |-> 0, read |-> <<>>]

\* the object passed to res.json by GET /api/statistics
StatsBody(st) ==
    [total |-> st.total, approved |-> st.approved, rejected |-> st.rejected,
     pending |-> st.pending, today |-> st.today]

\* locals of a handler suspended at an await
Call(op, pc, request, stats) ==
    [op |-> op, pc |-> pc, request |-> request, stats |-> stats]

Suspended == BagToSet(calls)
Suspend(c) == calls (+) SetToBag({c})

\* fault variant of Resume: the handler stays at its await and runs the
\* statement again
ResumeAgain(c) == calls

Resume(c) == calls (-) SetToBag({c})
CanSuspend == BagCardinality(calls) < MaxCalls

\* the INSERTs into login_attempts that suspended handlers have still to run
LogsInFlight ==
    BagCardinality([c \in {x \in Suspended : x.pc = "log"} |-> calls[c]])

-----------------------------------------------------------------------------
(* What each branch of each handler does to its store, and what it answers *)

\* mock branch of POST /api/login-requests: generateId(), two readings of
\* new Date() (t1, then t2), push, res.json(newRequest)
MockCreateOut(md, nid, body, t1, t2) ==
    LET row == [NewRequest(nid, body, t1) EXCEPT !.updated_at = t2]
    IN  [mockData |-> [md EXCEPT !.login_requests = Append(@, row)],
         nextId |-> nid + 1,
         res |-> Reply("create", 0, 200, row)]

\* pool branch: INSERT ... RETURNING *, res.json(result.rows[0])
DbCreateOut(rows, seq, body, t) ==
    LET row == NewRequest(seq, body, t)
    IN  [rows |-> Append(rows, row), seq |-> seq + 1,
         res |-> Reply("create", 0, 200, row)]

\* mock branch of the two list routes: the array (or its filter) as it is
MockListOut(op, rows) == Reply(op, 0, 200, Rows(rows))

\* pool branch of the two list routes: the rows under ORDER BY
DbListOuts(op, rows) ==
    {Reply(op, 0, 200, Rows(sorted)) : sorted \in OrderByCreatedDesc(rows)}

FirstMatch(rows, id) ==
    CHOOSE i \in Matching(rows, id) : \A j \in Matching(rows, id) : i <= j

\* mock branch of GET /api/login-requests/:id: find, 404 or the record
MockGetByIdOut(rows, id) ==
    IF Matching(rows, id) = {}
    THEN Reply("getById", id, 404, NotFound)
    ELSE Reply("getById", id, 200, rows[FirstMatch(rows, id)])

\* fault variant of DbGetByIdOut: no check of result.rows.length
GetByIdFound200(rows, id) ==
    IF Matching(rows, id) = {}
    THEN Reply("getById", id, 200, NoRow)
    ELSE Reply("getById", id, 200, rows[FirstMatch(rows, id)])

\* pool branch: SELECT ... WHERE id = $1, 404 on no row, else rows[0]
DbGetByIdOut(rows, id) ==
    IF Matching(rows, id) = {}
    THEN Reply("getById", id, 404, NotFound)
    ELSE Reply("getById", id, 200, rows[FirstMatch(rows, id)])

\* mock branch of approve / reject on a stored id: two assignments, a push
\* with generateId(), res.json of the record
MockResolveOut(md, nid, op, outcome, id, t) ==
    LET rows == md.login_requests
        i == FirstMatch(rows, id)
        row == SetStatus(rows[i], outcome, t)
        att == NewAttempt(nid, row, outcome, t)
    IN  [mockData |-> [login_requests |-> [rows EXCEPT ![i] = row],
                       login_attempts |-> Append(md.login_attempts, att)],
         nextId |-> nid + 1,
         logged |-> <<att.id>>,
         res |-> Reply(op, id, 200, row)]

\* pool branch, first statement, on a stored id: UPDATE login_requests SET
\* ... WHERE id = $2 RETURNING *; request is result.rows[0]
DbUpdateOut(rows, outcome, id, t) ==
    LET i == FirstMatch(rows, id)
        row == SetStatus(rows[i], outcome, t)
    IN  [rows |-> [rows EXCEPT ![i] = row], request |-> row]

\* fault variant of DbLogOut: the answer is sent but nothing is inserted
DbLogOutNoInsert(atts, seq, op, outcome, request, t) ==
    [atts |-> atts, seq |-> seq, logged |-> <<seq>>,
     res |-> Reply(op, request.id, 200, request)]

\* pool branch, second statement: INSERT INTO login_attempts, then
\* res.json(result.rows[0])
DbLogOut(atts, seq, op, outcome, request, t) ==
    [atts |-> Append(atts, NewAttempt(seq, request, outcome, t)),
     seq |-> seq + 1,
     logged |-> <<seq>>,
     res |-> Reply(op, request.id, 200, request)]

\* mock branch of GET /api/statistics: five scans in one turn
MockStatisticsOut(rows, t) ==
    Reply("statistics", 0, 200,
          [total |-> Len(rows),
           approved |-> CountStatus(rows, "approved"),
           rejected |-> CountStatus(rows, "rejected"),
           pending |-> CountStatus(rows, "pending"),
           today |-> CountSince(rows, Midnight(t))])

-----------------------------------------------------------------------------
Init ==
    /\ env \in Envs
    /\ login_requests = <<>>
    /\ login_attempts = <<>>
    /\ reqSeq = 1
    /\ attSeq = 1
    /\ mockData = [login_requests |-> <<>>, login_attempts |-> <<>>]
    /\ nextId = 1
    /\ now = 0
    /\ calls = EmptyBag
    /\ res = NoRes
    /\ resMock = NoRes
    /\ obs = NoObs
    /\ lastResolve = [i \in Ids |-> NoResolve]
    /\ acked = {}

unchangedDb == UNCHANGED <<login_requests, login_attempts, reqSeq, attSeq>>
unchangedMock == UNCHANGED <<mockData, nextId>>

\* time passes between two statements
Tick ==
    /\ now < MaxClock
    /\ now' = now + 1
    /\ res' = NoRes
    /\ obs' = NoObs
    /\ UNCHANGED <<env, calls, resMock, lastResolve, acked>>
    /\ unchangedDb
    /\ unchangedMock

\* fault variant of Fails: the catch block answers 200 with no record
FailsUnreported(op, id) == res' = Reply(op, id, 200, NoRow)

\* a rejected pool.query: the catch block answers 500
Fails(op, id) == res' = Reply(op, id, 500, ServerError)

-----------------------------------------------------------------------------
(* POST /api/login-requests *)
Create ==
    \E body \in Bodies :
        /\ IF UseMock(env)
           THEN /\ Len(mockData.login_requests) < MaxReq
                /\ \E t2 \in {t \in {now, now + 1} : t <= MaxClock} :
                     LET o == MockCreateOut(mockData, nextId, body, now, t2)
                     IN  /\ mockData' = o.mockData
                         /\ nextId' = o.nextId
                         /\ now' = t2
                         /\ res' = o.res
                /\ obs' = NoObs
                /\ unchangedDb
           ELSE /\ \/ /\ Len(login_requests) < MaxReq
                      /\ LET o == DbCreateOut(login_requests, reqSeq, body, now)
                         IN  /\ login_requests' = o.rows
                             /\ reqSeq' = o.seq
                             /\ res' = o.res
                      /\ UNCHANGED <<login_attempts, attSeq>>
                   \/ /\ Fails("create", 0)
                      /\ unchangedDb
                /\ obs' = NoObs
                /\ UNCHANGED now
                /\ unchangedMock
        /\ UNCHANGED <<env, calls, resMock, lastResolve, acked>>

-----------------------------------------------------------------------------
(* GET /api/login-requests/pending, GET /api/login-requests *)
\* fault variant of ReadOnly: the read draws a value of login_requests.id
ReadOnlyDrawsId ==
    /\ reqSeq' = reqSeq + 1
    /\ UNCHANGED <<env, now, calls, resMock, lastResolve, acked>>
    /\ UNCHANGED <<login_requests, login_attempts, attSeq>>
    /\ unchangedMock

\* what the three SELECT routes leave as it is
ReadOnly ==
    /\ UNCHANGED <<env, now, calls, resMock, lastResolve, acked>>
    /\ unchangedDb
    /\ unchangedMock

List(op, mockRows, rows) ==
    /\ IF UseMock(env)
       THEN res' = MockListOut(op, mockRows)
       ELSE \/ res' \in DbListOuts(op, rows)
            \/ Fails(op, 0)
    /\ obs' = NoObs
    /\ ReadOnly

ListPending ==
    List("listPending", Filter(mockData.login_requests, "pending"),
         Filter(login_requests, "pending"))

ListAll == List("listAll", mockData.login_requests, login_requests)

-----------------------------------------------------------------------------
(* GET /api/login-requests/:id *)
GetById ==
    /\ IF UseMock(env)
       THEN \E id \in Named(mockData.login_requests, nextId) :
              /\ res' = MockGetByIdOut(mockData.login_requests, id)
              /\ obs' = Seen(Matching(mockData.login_requests, id) # {}, <<>>,
                             mockData.login_attempts, lastResolve[id])
       ELSE \E id \in Named(login_requests, reqSeq) :
              /\ \/ res' = DbGetByIdOut(login_requests, id)
                 \/ Fails("getById", id)
              /\ obs' = Seen(Matching(login_requests, id) # {}, <<>>,
                             login_attempts, lastResolve[id])
    /\ ReadOnly

-----------------------------------------------------------------------------
(* PUT /api/login-requests/:id/approve, PUT /api/login-requests/:id/reject *)

\* the handler up to its second await (the whole handler in the mock branch);
\* limit bounds the handlers the model lets wait at the same time
ResolveWithin(limit, op, outcome) ==
    /\ IF UseMock(env)
       THEN \E id \in Named(mockData.login_requests, nextId) :
              /\ IF Matching(mockData.login_requests, id) = {}
                 THEN /\ res' = Reply(op, id, 404, NotFound)
                      /\ obs' = Seen(FALSE, <<>>, <<>>, lastResolve[id])
                      /\ UNCHANGED <<mockData, nextId, lastResolve, acked>>
                 ELSE /\ Len(mockData.login_attempts) < MaxAtt
                      /\ LET o == MockResolveOut(mockData, nextId, op,
                                                 outcome, id, now)
                         IN  /\ mockData' = o.mockData
                             /\ nextId' = o.nextId
                             /\ res' = o.res
                             /\ obs' = Seen(TRUE, o.logged, <<>>,
                                            lastResolve[id])
                      /\ lastResolve' =
                            [lastResolve EXCEPT
                               ![id] = [outcome |-> outcome, at |-> now]]
                      /\ acked' = acked \cup {<<id, outcome>>}
              /\ UNCHANGED <<login_requests, calls>>
       ELSE \E id \in Named(login_requests, reqSeq) :
              /\ \/ /\ Matching(login_requests, id) = {}
                    /\ res' = Reply(op, id, 404, NotFound)
                    /\ obs' = Seen(FALSE, <<>>, <<>>, lastResolve[id])
                    /\ UNCHANGED <<login_requests, calls, lastResolve>>
                 \/ /\ Matching(login_requests, id) # {}
                    /\ BagCardinality(calls) < limit
                    /\ Len(login_attempts) + LogsInFlight < MaxAtt
                    /\ LET o == DbUpdateOut(login_requests, outcome, id, now)
                       IN  /\ login_requests' = o.rows
                           /\ calls' = Suspend(Call(op, "log", o.request,
                                                    NoStats))
                    /\ res' = NoRes
                    /\ obs' = NoObs
                    /\ lastResolve' =
                          [lastResolve EXCEPT
                             ![id] = [outcome |-> outcome, at |-> now]]
                 \/ /\ Fails(op, id)
                    /\ obs' = Seen(Matching(login_requests, id) # {}, <<>>,
                                   <<>>, lastResolve[id])
                    /\ UNCHANGED <<login_requests, calls, lastResolve>>
              /\ UNCHANGED acked
              /\ unchangedMock
    /\ UNCHANGED <<env, now, login_attempts, reqSeq, attSeq, resMock>>

\* the handler from its second await, pool branch only
ResolveLog(op, outcome) ==
    \E c \in Suspended :
        /\ c.op = op
        /\ c.pc = "log"
        /\ calls' = Resume(c)
        /\ \/ LET o == DbLogOut(login_attempts, attSeq, op, outcome,
                                c.request, now)
              IN  /\ login_attempts' = o.atts
                  /\ attSeq' = o.seq
                  /\ res' = o.res
                  /\ obs' = Ended(Seen(TRUE, o.logged, <<>>,
                                       lastResolve[c.request.id]))
                  /\ acked' = acked \cup {<<c.request.id, outcome>>}
           \/ /\ Fails(op, c.request.id)
              /\ obs' = Ended(Seen(TRUE, <<>>, <<>>,
                                   lastResolve[c.request.id]))
              /\ UNCHANGED <<login_attempts, attSeq, acked>>
        /\ UNCHANGED <<env, now, login_requests, reqSeq, resMock, lastResolve>>
        /\ unchangedMock

Resolve(op, outcome) == ResolveWithin(MaxCalls, op, outcome)

Approve == Resolve("approve", "approved")
ApproveLog == ResolveLog("approve", "approved")
Reject == Resolve("reject", "rejected")
RejectLog == ResolveLog("reject", "rejected")

-----------------------------------------------------------------------------
(* GET /api/statistics *)

\* the handler up to its second await (the whole handler in the mock branch):
\* SELECT COUNT(*) FROM login_requests
Statistics ==
    /\ IF UseMock(env)
       THEN /\ res' = MockStatisticsOut(mockData.login_requests, now)
            /\ UNCHANGED calls
       ELSE \/ /\ CanSuspend
               /\ calls' = Suspend(Call("statistics", "approved", NoRow,
                              [NoStats EXCEPT
                                 !.total = CountAll(login_requests),
                                 !.read = login_requests]))
               /\ res' = NoRes
            \/ /\ Fails("statistics", 0)
               /\ UNCHANGED calls
    /\ obs' = NoObs
    /\ UNCHANGED <<env, now, resMock, lastResolve, acked>>
    /\ unchangedDb
    /\ unchangedMock

\* the handler from one await to the next, pool branch only: the three counts
\* by status, midnight of today, the count since midnight and res.json
StatisticsStep ==
    \E c \in Suspended :
        /\ c.op = "statistics"
        /\ \/ /\ c.pc = "approved"
              /\ calls' = Resume(c) (+) SetToBag({
                    Call("statistics", "rejected", NoRow,
                         [c.stats EXCEPT !.approved =
                             CountStatus(login_requests, "approved")])})
              /\ res' = NoRes
              /\ obs' = NoObs
           \/ /\ c.pc = "rejected"
              /\ calls' = Resume(c) (+) SetToBag({
                    Call("statistics", "pending", NoRow,
                         [c.stats EXCEPT !.rejected =
                             CountStatus(login_requests, "rejected")])})
              /\ res' = NoRes
              /\ obs' = NoObs
           \/ /\ c.pc = "pending"
              /\ calls' = Resume(c) (+) SetToBag({
                    Call("statistics", "today", NoRow,
                         [c.stats EXCEPT
                            !.pending = CountStatus(login_requests, "pending"),
                            !.since = Midnight(now)])})
              /\ res' = NoRes
              /\ obs' = NoObs
           \/ /\ c.pc = "today"
              /\ calls' = Resume(c)
              /\ res' = Reply("statistics", 0, 200,
                    StatsBody([c.stats EXCEPT !.today =
                        CountSince(login_requests, c.stats.since)]))
              /\ obs' = Ended(NoObs)
           \/ /\ calls' = Resume(c)
              /\ Fails("statistics", 0)
              /\ obs' = Ended(NoObs)
        /\ UNCHANGED <<env, now, resMock, lastResolve, acked>>
        /\ unchangedDb
        /\ unchangedMock

-----------------------------------------------------------------------------
Next ==
    \/ Tick
    \/ Create
    \/ ListPending
    \/ ListAll
    \/ GetById
    \/ Approve
    \/ ApproveLog
    \/ Reject
    \/ RejectLog
    \/ Statistics
    \/ StatisticsStep

Spec == Init /\ [][Next]_vars

\* The handlers at one clock reading.  Every pool.query a handler awaits
\* settles, and the event loop then runs the rest of the handler: a handler
\* that waits does take its next step.
NextFair ==
    \/ Create
    \/ ListPending
    \/ ListAll
    \/ GetById
    \/ Approve
    \/ ApproveLog
    \/ Reject
    \/ RejectLog
    \/ Statistics
    \/ StatisticsStep

SpecFair ==
    /\ Init
    /\ [][NextFair]_vars
    /\ WF_calls(ApproveLog)
    /\ WF_calls(RejectLog)
    /\ WF_calls(StatisticsStep)

-----------------------------------------------------------------------------
(* The two branches side by side: every call is served by the mock branch  *)
(* over mockData and by the pool branch over the tables, one call at a     *)
(* time and with no rejected query; res holds the pool branch's answer and *)
(* resMock the mock branch's.                                              *)

EqFrame == UNCHANGED <<env, calls, obs, lastResolve, acked>>

EqTick ==
    /\ now < MaxClock
    /\ now' = now + 1
    /\ res' = NoRes
    /\ resMock' = NoRes
    /\ unchangedDb
    /\ unchangedMock
    /\ EqFrame

EqCreate ==
    \E body \in Bodies, t2 \in {t \in {now, now + 1} : t <= MaxClock} :
        LET m == MockCreateOut(mockData, nextId, body, now, t2)
            d == DbCreateOut(login_requests, reqSeq, body, now)
        IN  /\ Len(mockData.login_requests) < MaxReq
            /\ Len(login_requests) < MaxReq
            /\ mockData' = m.mockData
            /\ nextId' = m.nextId
            /\ resMock' = m.res
            /\ login_requests' = d.rows
            /\ reqSeq' = d.seq
            /\ res' = d.res
            /\ now' = t2
            /\ UNCHANGED <<login_attempts, attSeq>>
            /\ EqFrame

EqList(op, mockRows, rows) ==
    /\ resMock' = MockListOut(op, mockRows)
    /\ res' \in DbListOuts(op, rows)
    /\ UNCHANGED now
    /\ unchangedDb
    /\ unchangedMock
    /\ EqFrame

EqListPending ==
    EqList("listPending", Filter(mockData.login_requests, "pending"),
           Filter(login_requests, "pending"))

EqListAll == EqList("listAll", mockData.login_requests, login_requests)

\* the ids a caller names to both branches
EqNamed ==
    Named(mockData.login_requests, nextId) \cup Named(login_requests, reqSeq)

EqGetById ==
    \E id \in EqNamed :
        /\ resMock' = MockGetByIdOut(mockData.login_requests, id)
        /\ res' = DbGetByIdOut(login_requests, id)
        /\ UNCHANGED now
        /\ unchangedDb
        /\ unchangedMock
        /\ EqFrame

EqResolve(op, outcome) ==
    \E id \in EqNamed :
        /\ Len(mockData.login_attempts) < MaxAtt
        /\ Len(login_attempts) < MaxAtt
        /\ IF Matching(mockData.login_requests, id) = {}
           THEN /\ resMock' = Reply(op, id, 404, NotFound)
                /\ unchangedMock
           ELSE LET m == MockResolveOut(mockData, nextId, op, outcome, id, now)
                IN  /\ mockData' = m.mockData
                    /\ nextId' = m.nextId
                    /\ resMock' = m.res
        /\ IF Matching(login_requests, id) = {}
           THEN /\ res' = Reply(op, id, 404, NotFound)
                /\ unchangedDb
           ELSE LET u == DbUpdateOut(login_requests, outcome, id, now)
                    l == DbLogOut(login_attempts, attSeq, op, outcome,
                                  u.request, now)
                IN  /\ login_requests' = u.rows
                    /\ login_attempts' = l.atts
                    /\ attSeq' = l.seq
                    /\ res' = l.res
                    /\ UNCHANGED reqSeq
        /\ UNCHANGED now
        /\ EqFrame

EqApprove == EqResolve("approve", "approved")
EqReject == EqResolve("reject", "rejected")

NextEq ==
    \/ EqTick
    \/ EqCreate
    \/ EqListPending
    \/ EqListAll
    \/ EqGetById
    \/ EqApprove
    \/ EqReject

SpecEq == Init /\ [][NextEq]_vars

-----------------------------------------------------------------------------
(* Submits, approves and rejects alone, with up to MaxRace approve and      *)
(* reject handlers between their UPDATE and their INSERT at the same time. *)

RaceApprove == ResolveWithin(MaxRace, "approve", "approved")
RaceReject == ResolveWithin(MaxRace, "reject", "rejected")

NextRace ==
    \/ Create
    \/ RaceApprove
    \/ RaceReject
    \/ ApproveLog
    \/ RejectLog

SpecRace == Init /\ [][NextRace]_vars

\* a request record without its timestamps
Untimed(r) ==
    [id |-> r.id, username |-> r.username, password |-> r.password,
     ip_address |-> r.ip_address, status |-> r.status]

\* a response with the timestamps of its records left out
UntimedRes(r) ==
    IF r.code # 200
    THEN r
    ELSE IF r.op \in {"listAll", "listPending"}
         THEN [r EXCEPT !.body = Rows([k \in Indexes(r.body.rows) |->
                                          Untimed(r.body.rows[k])])]
         ELSE [r EXCEPT !.body = Untimed(r.body)]

\* the rows a list route reads in the pool branch
Listed(op) ==
    IF op = "listPending" THEN Filter(login_requests, "pending")
    ELSE login_requests

\* C10: after every call the two branches have answered alike: same status
\* code, same records with the same ids and fields, timestamps aside, and
\* for a list the mock branch's order is one ORDER BY created_at DESC allows.
C10_BranchesAgree ==
    IF res.op \in {"listAll", "listPending"}
    THEN \E r \in DbListOuts(res.op, Listed(res.op)) :
            UntimedRes(r) = UntimedRes(resMock)
    ELSE UntimedRes(res) = UntimedRes(resMock)

-----------------------------------------------------------------------------
(* Properties of the lifecycle *)

Usernames == {b.username : b \in Bodies}
Resolves == {"approve", "reject"}
OutcomeOf(op) == IF op = "approve" THEN "approved" ELSE "rejected"

AttemptsOf(u) == Len(SelectSeq(login_attempts, LAMBDA a : a.username = u))
ResolvedOf(u) ==
    Len(SelectSeq(login_requests,
                  LAMBDA r : r.username = u /\ r.status # "pending"))

\* an attempt of the log that carries the username, the ip_address and the
\* status of the request
Matches(a, request) ==
    /\ a.username = request.username
    /\ a.ip_address = request.ip_address
    /\ a.status = request.status

\* C1: once a request is approved or rejected, no step changes its status or
\* its updated_at again.
C1_Terminal ==
    [][\A i \in Indexes(login_requests) :
          login_requests[i].status # "pending" =>
              /\ login_requests'[i].status = login_requests[i].status
              /\ login_requests'[i].updated_at = login_requests[i].updated_at]_vars

\* C2: for every username, the attempt log holds at most as many records of
\* that username as there are resolved (not pending) requests of it.
C2_AttemptsAtMostResolved ==
    \A u \in Usernames : AttemptsOf(u) <= ResolvedOf(u)

\* C3 as stated: every approve or reject of a stored request, whatever it
\* answers, has appended exactly one attempt.
C3_EveryResolveLogsOne ==
    (res.op \in Resolves /\ obs.found) => Len(obs.logged) = 1

\* C3 as amended: an approve or reject that answers 200 has appended exactly
\* one attempt, the last of the log, with the outcome as status and the
\* username and ip_address of the stored request; one that answers 404 or
\* 500 has appended none.
C3_SuccessfulResolveLogsOne ==
    res.op \in Resolves =>
        IF res.code = 200
        THEN /\ Len(obs.logged) = 1
             /\ login_attempts # <<>>
             /\ LET a == login_attempts[Len(login_attempts)]
                IN  /\ a.id = obs.logged[1]
                    /\ \A k \in Indexes(login_attempts) :
                          login_attempts[k].id = a.id =>
                              k = Len(login_attempts)
                    /\ a.status = OutcomeOf(res.op)
                    /\ \E i \in Matching(login_requests, res.id) :
                          /\ a.username = login_requests[i].username
                          /\ a.ip_address = login_requests[i].ip_address
                    /\ a.username = res.body.username
                    /\ a.ip_address = res.body.ip_address
        ELSE obs.logged = <<>>

C3_Witness ==
    /\ res.op = "reject"
    /\ res.code = 200
    /\ Len(login_attempts) = 2
    /\ login_attempts[2].status = "rejected"

\* C4: in every state of the store the three counts by status add up to the
\* total count: every stored request is pending, approved or rejected.
C4_CountsPartition ==
    /\ CountStatus(login_requests, "pending")
          + CountStatus(login_requests, "approved")
          + CountStatus(login_requests, "rejected") = Len(login_requests)
    /\ \A i \in Indexes(login_requests) :
          login_requests[i].status \in {"pending", "approved", "rejected"}

C4_Witness ==
    /\ Len(login_requests) = 2
    /\ CountStatus(login_requests, "pending") = 1
    /\ CountStatus(login_requests, "rejected") = 1

\* C5: no step takes a request that is approved or rejected back to pending.
C5_NeverBackToPending ==
    [][\A i \in Indexes(login_requests) :
          login_requests[i].status # "pending" =>
              login_requests'[i].status # "pending"]_vars

\* a request resolved twice: rejected now, with its earlier approval logged
C5_Witness ==
    \E i \in Indexes(login_requests) :
        /\ login_requests[i].status = "rejected"
        /\ lastResolve[login_requests[i].id].outcome = "rejected"
        /\ \E k \in Indexes(login_attempts) :
              /\ login_attempts[k].status = "approved"
              /\ login_attempts[k].username = login_requests[i].username
        /\ \A j \in Indexes(login_requests) :
              login_requests[j].username = login_requests[i].username => j = i

\* C6 as stated: a read that returns a request with its new status finds the
\* matching attempt already in the log.
C6_ObservedTogether ==
    (res.op = "getById" /\ res.code = 200 /\ res.body.status # "pending") =>
        \E k \in Indexes(obs.seen) : Matches(obs.seen[k], res.body)

\* C6 as amended: a read that returns a request with a status some approve or
\* reject of that request has already answered 200 for finds the matching
\* attempt in the log.
C6_ObservedAfterSuccess ==
    (/\ res.op = "getById"
     /\ res.code = 200
     /\ <<res.id, res.body.status>> \in acked) =>
        \E k \in Indexes(obs.seen) : Matches(obs.seen[k], res.body)

C6_Witness ==
    /\ res.op = "getById"
    /\ res.code = 200
    /\ <<res.id, res.body.status>> \in acked
    /\ LogsInFlight = 1

\* C7: a create that answers 200 returns the row it stored, with status
\* pending and created_at equal to updated_at.
C7_CreatedPending ==
    (res.op = "create" /\ res.code = 200) =>
        /\ res.body.status = "pending"
        /\ res.body.created_at = res.body.updated_at
        /\ login_requests # <<>>
        /\ login_requests[Len(login_requests)] = res.body

C7_Witness ==
    /\ res.op = "create"
    /\ res.code = 200
    /\ res.body.ip_address = "127.0.0.1"
    /\ res.body.created_at = 1

\* C8 as stated: a read of a request whose last resolution was an approval,
\* with no resolution in flight, returns it approved and with updated_at
\* strictly after created_at.
C8_ApprovedStrictlyLater ==
    (/\ res.op = "getById"
     /\ obs.found
     /\ obs.prior.outcome = "approved"
     /\ LogsInFlight = 0) =>
        /\ res.code = 200
        /\ res.body.status = "approved"
        /\ res.body.updated_at > res.body.created_at

\* C8 as amended: such a read, when it answers 200, returns the request
\* approved and with updated_at the time of the approval, which is not
\* before created_at.
C8_ApprovedNotEarlier ==
    (/\ res.op = "getById"
     /\ res.code = 200
     /\ obs.prior.outcome = "approved"
     /\ LogsInFlight = 0) =>
        /\ res.body.status = "approved"
        /\ res.body.updated_at = obs.prior.at
        /\ res.body.updated_at >= res.body.created_at

C8_Witness ==
    /\ res.op = "getById"
    /\ res.code = 200
    /\ obs.prior.outcome = "approved"
    /\ LogsInFlight = 0
    /\ res.body.updated_at > res.body.created_at

\* the step answers a getById, approve or reject that named no stored row
AnswersAbsent ==
    /\ res'.op \in Resolves \cup {"getById"}
    /\ ~obs'.found

StoresUnchanged ==
    /\ login_requests' = login_requests
    /\ login_attempts' = login_attempts
    /\ reqSeq' = reqSeq
    /\ attSeq' = attSeq
    /\ mockData' = mockData
    /\ nextId' = nextId

\* C9 as stated: a getById, approve or reject of an id that is not stored
\* answers 404 and changes neither table.
C9_AbsentIs404 ==
    [][AnswersAbsent => (res'.code = 404 /\ StoresUnchanged)]_vars

\* C9 as amended: it answers 404, or 500 when its statement is rejected, and
\* in both cases changes neither table and appends no attempt.
C9_AbsentIs404Or500 ==
    [][AnswersAbsent =>
          /\ res'.code \in {404, 500}
          /\ obs'.logged = <<>>
          /\ StoresUnchanged]_vars

C9_Witness ==
    /\ res.op = "approve"
    /\ res.code = 404
    /\ ~obs.found
    /\ login_requests # <<>>

-----------------------------------------------------------------------------
(* Properties of the choice of backend *)

\* no DATABASE_URL, and NODE_ENV is not 'production'
NoDurableConfigured(e) ==
    /\ ~Truthy(e.DATABASE_URL)
    /\ ~StrictEquals(e.NODE_ENV, Str("production"))

\* C11: with no DATABASE_URL and outside production no handler reaches the
\* pool: no row is inserted into either table, neither SERIAL advances, no
\* handler waits on a pool query and no rejected query is answered with 500.
C11_ServedInMemory ==
    NoDurableConfigured(env) =>
        /\ login_requests = <<>>
        /\ login_attempts = <<>>
        /\ reqSeq = 1
        /\ attSeq = 1
        /\ calls = EmptyBag
        /\ res.code # 500

-----------------------------------------------------------------------------
(* Properties of the reads *)

\* C12: a statistics call during which the table was not changed answers
\* with a total equal to the number of rows GET /api/login-requests returns
\* from the same table.
C12_TotalIsListAllLength ==
    [][\A c \in Suspended :
          (/\ c.op = "statistics"
           /\ c.pc = "today"
           /\ res'.op = "statistics"
           /\ res'.code = 200
           /\ c.stats.read = login_requests) =>
              \A r \in DbListOuts("listAll", login_requests') :
                  res'.body.total = Len(r.body.rows)]_vars

\* a statistics answer over two rows: the table was full when the call
\* began, so no row was added while it ran
C12_Witness ==
    /\ res.op = "statistics"
    /\ res.code = 200
    /\ res.body.total = 2
    /\ Len(login_requests) = 2

\* ids of the rows of a list response
IdsOf(rows) == {rows[k].id : k \in Indexes(rows)}

\* C13: a pending list that answers 200 is what some answer of the full list
\* in the same state holds with status pending, in the same order; it holds
\* no request an approve or reject has answered 200 for, and it holds every
\* stored request no UPDATE has been applied to.
C13_PendingIsFilteredAll ==
    (res.op = "listPending" /\ res.code = 200) =>
        /\ \E r \in DbListOuts("listAll", login_requests) :
              res.body.rows = Filter(r.body.rows, "pending")
        /\ \A p \in acked : p[1] \notin IdsOf(res.body.rows)
        /\ \A i \in Indexes(login_requests) :
              lastResolve[login_requests[i].id] = NoResolve =>
                  \E k \in Indexes(res.body.rows) :
                      res.body.rows[k] = login_requests[i]

\* two stored requests, one resolved with success, the other listed
C13_Witness ==
    /\ res.op = "listPending"
    /\ res.code = 200
    /\ Len(login_requests) = 2
    /\ Len(res.body.rows) = 1
    /\ \E p \in acked : p[1] \in IdsOf(login_requests)

-----------------------------------------------------------------------------
(* Properties of the two statements of approve and reject *)

\* the stored row of the id has the status and updated_at of the row the
\* UPDATE of the handler returned
KeepsUpdate(rows, request) ==
    \E i \in Matching(rows, request.id) :
        /\ rows[i].status = request.status
        /\ rows[i].updated_at = request.updated_at

\* the UPDATE of the handler is the last one applied to its request
LastUpdateIsOf(request) ==
    lastResolve[request.id] =
        [outcome |-> request.status, at |-> request.updated_at]

\* C14: an approve or reject whose UPDATE has succeeded ends at its INSERT in
\* one of two ways: the attempt is appended and the answer is 200, or the
\* INSERT is rejected, and then the answer is 500, the handler is gone (the
\* INSERT is not run again), login_requests is left as it is, so that the
\* request keeps the status and updated_at of the UPDATE, and nothing is
\* appended to login_attempts.
C14_FailedInsertKeepsUpdate ==
    [][\A c \in Suspended :
          (c.pc = "log" /\ c \notin Suspended') =>
              \/ /\ res'.code = 200
                 /\ Len(login_attempts') = Len(login_attempts) + 1
              \/ /\ res' = Reply(c.op, c.request.id, 500, ServerError)
                 /\ calls' = calls (-) SetToBag({c})
                 /\ login_requests' = login_requests
                 /\ LastUpdateIsOf(c.request) =>
                       KeepsUpdate(login_requests', c.request)
                 /\ login_attempts' = login_attempts
                 /\ attSeq' = attSeq
                 /\ acked' = acked]_vars

\* a request left approved by a handler that has ended with 500: no attempt
\* is in the log and no handler is in flight
C14_Witness ==
    /\ res.op = "approve"
    /\ res.code = 500
    /\ obs.found
    /\ calls = EmptyBag
    /\ login_attempts = <<>>
    /\ \E i \in Matching(login_requests, res.id) :
          login_requests[i].status = "approved"

-----------------------------------------------------------------------------
(* Properties of the id sequences *)

\* C15: in the in-memory store the k-th submitted request has id k, however
\* many approves and rejects have appended attempts between the submits.
C15_KthRequestHasIdK ==
    \A k \in Indexes(mockData.login_requests) :
        mockData.login_requests[k].id = k

-----------------------------------------------------------------------------
(* Frame properties *)

\* the step leaves login_requests as it is but for the status and the
\* updated_at of the row of the id
OnlyStatusChanged(id) ==
    /\ Len(login_requests') = Len(login_requests)
    /\ \A i \in Indexes(login_requests) :
          login_requests'[i] =
              IF login_requests[i].id = id
              THEN [login_requests[i] EXCEPT
                      !.status = login_requests'[i].status,
                      !.updated_at = login_requests'[i].updated_at]
              ELSE login_requests[i]

\* C16: the step in which an approve or reject runs its UPDATE changes the
\* status and updated_at of the row of its id and nothing else of
\* login_requests: the row keeps id, username, password, ip_address and
\* created_at, every other row is as before and no row is added or removed;
\* the step in which an approve or reject answers leaves the table as it is.
C16_ResolveChangesStatusOnly ==
    [][/\ \A c \in Suspended' :
             (c.pc = "log" /\ CopiesIn(c, calls') > CopiesIn(c, calls)) =>
                 OnlyStatusChanged(c.request.id)
       /\ res'.op \in Resolves => login_requests' = login_requests]_vars

\* the UPDATE of an approve has run on one of two stored requests
C16_Witness ==
    /\ Len(login_requests) = 2
    /\ \E c \in Suspended :
          /\ c.pc = "log"
          /\ c.op = "approve"
          /\ \E i \in Matching(login_requests, c.request.id) :
                login_requests[i].status = "approved"
          /\ \E j \in Indexes(login_requests) :
                login_requests[j].status = "pending"

Reads == {"listAll", "listPending", "getById", "statistics"}

\* the step answers one of the four read routes, or runs a query of a
\* statistics handler that goes on to its next query
ReadStep ==
    \/ res'.op \in Reads
    \/ \E c \in Suspended' :
          c.op = "statistics" /\ CopiesIn(c, calls') > CopiesIn(c, calls)

\* C17: no step of GET /api/statistics, GET /api/login-requests,
\* GET /api/login-requests/pending or GET /api/login-requests/:id changes
\* a table, the attempt log or an id sequence.
C17_ReadsChangeNothing ==
    [][ReadStep => StoresUnchanged]_vars

\* statistics answered over a table and a log that are not empty
C17_Witness ==
    /\ res.op = "statistics"
    /\ res.code = 200
    /\ res.body.approved = 1
    /\ login_attempts # <<>>
    /\ reqSeq = 2

-----------------------------------------------------------------------------
(* Properties of handlers that interleave *)

\* C18: the object a statistics call answers with has pending, approved and
\* rejected adding up to total, whatever other handlers ran between its
\* queries.
C18_StatsConsistent ==
    (res.op = "statistics" /\ res.code = 200) =>
        res.body.pending + res.body.approved + res.body.rejected
            = res.body.total

\* the attempts logged for a username, oldest first
LoggedFor(u) == SelectSeq(login_attempts, LAMBDA a : a.username = u)

\* C19: once an approve and a reject of the same request have both answered
\* 200 and no handler is in flight, the status of the request is the status
\* of the last attempt logged for it (the request is the only one of its
\* username, so the attempts of the username are its own).
C19_FinalStatusIsLastAttempt ==
    \A i \in Indexes(login_requests) :
        LET r == login_requests[i]
        IN  (/\ <<r.id, "approved">> \in acked
             /\ <<r.id, "rejected">> \in acked
             /\ calls = EmptyBag
             /\ \A j \in Indexes(login_requests) :
                   login_requests[j].username = r.username => j = i) =>
                /\ LoggedFor(r.username) # <<>>
                /\ r.status =
                      LoggedFor(r.username)[Len(LoggedFor(r.username))].status

-----------------------------------------------------------------------------
(* Every call is answered, once *)

Awaiting == {"approve", "reject", "statistics"}
Waiting(op) == \E c \in Suspended : c.op = op
Answered(op) == obs.ended /\ res.op = op /\ res.code \in {200, 500}

\* what one step does to the handlers that wait and to the response: a
\* handler that starts to wait has not answered; a handler that goes from one
\* query to the next has not answered; a step ends a waiting handler exactly
\* when it takes it off the waiting handlers, one handler, with its answer,
\* 200 or 500; an answer is 200, 404 or 500; a step that answers 500 has
\* changed neither table nor sequence and leaves no handler waiting that
\* was not waiting before it.
OneAnswer ==
    LET n == BagCardinality(calls)
        m == BagCardinality(calls')
    IN  /\ res'.code \in {0, 200, 404, 500}
        /\ res'.code = 0 <=> res'.op = "none"
        /\ res'.code = 404 => res'.op \in Resolves \cup {"getById"}
        /\ m > n => (m = n + 1 /\ res'.code = 0)
        /\ (m = n /\ calls' # calls) => res'.code = 0
        /\ obs'.ended <=> m < n
        /\ obs'.ended =>
              /\ m = n - 1
              /\ res'.code \in {200, 500}
              /\ \E c \in Suspended :
                    /\ c.op = res'.op
                    /\ CopiesIn(c, calls') = CopiesIn(c, calls) - 1
        /\ res'.code = 500 => (m <= n /\ StoresUnchanged)

\* C20: every step keeps to OneAnswer, and whenever an approve, a reject or a
\* statistics handler waits at a query, a waiting handler of that route
\* goes on to its answer, 200 or 500.  (The other routes, and these up to
\* their first query, answer in the step that runs their only statement.)
C20_EveryCallAnswersOnce ==
    /\ [][OneAnswer]_vars
    /\ \A op \in Awaiting : Waiting(op) ~> Answered(op)

\* a reject that waited at its INSERT has been answered 500, after an earlier
\* approve or reject was logged
C20_Witness ==
    /\ obs.ended
    /\ res.op = "reject"
    /\ res.code = 500
    /\ login_attempts # <<>>

====
